---- MODULE Spec2Model ----
(***************************************************************************)
(* The Home page of the registration application                           *)
(* (client/src/pages/Home.tsx): the React state of the component, the two  *)
(* localStorage keys it uses, its three mount/save effects and its         *)
(* handlers.                                                               *)
(*                                                                         *)
(* Strings the code inspects character by character (the name, the phone   *)
(* number, the search text) are sequences of one-character strings; the    *)
(* select values ("iw", "bts1", ...) are only compared, and are strings.   *)
(* Date.now() is a logical clock; the id of a registration is the clock    *)
(* value at its creation, registrations found in storage when the          *)
(* observed run starts carry ids below zero.                               *)
(***************************************************************************)
EXTENDS Integers, Sequences, FiniteSets, TLC

VARIABLES
    pc,                  \* "closed" | "mounting" | "ready" | "crashed"
    storageUserId,       \* localStorage["userId"]
    storageInscriptions, \* localStorage["inscriptions"]
    inscriptions,        \* useState<Inscription[]>([])
    formData,            \* useState({nom, filiere, niveau, telephone})
    loading,             \* useState(false)
    currentUserId,       \* useState<string>("")
    searchNom,           \* useState("")
    filterFiliere,       \* useState<string>("")
    filterNiveau,        \* useState<string>("")
    queued,              \* state updates scheduled by the mount effects
    pending,             \* handleSubmit calls waiting in their 500 ms delay
    clock,               \* Date.now()
    lastToast,           \* the toast the last step showed, "none" if none
    loadedKind,          \* what the load effect of this page load found
    sessionStart         \* the clock when this page load began

vars == <<pc, storageUserId, storageInscriptions, inscriptions, formData,
          loading, currentUserId, searchNom, filterFiliere, filterNiveau,
          queued, pending, clock, lastToast, loadedKind, sessionStart>>

------------------------------------------------------------------------------
(* Bounds of the model *)

\* ids generated in one behaviour (registrations and browser identifiers)
MaxClock == 2
\* handleSubmit calls that may wait in their delay at once
MaxPending == 2
\* registrations at the head of the list whose delete button is clicked
MaxClick == 3
\* registrations in the lists the filters are tried on
MaxFilterList == 5

------------------------------------------------------------------------------
(* Program constants *)

MAX_INSCRIPTIONS == 50

FILIERES == <<"genie-logiciel", "reseau-securite", "iw", "cmn">>

NIVEAUX == <<"bts1", "bts2", "licence", "master1", "master2">>

Range(s) == {s[i] : i \in 1..Len(s)}

------------------------------------------------------------------------------
(* Strings *)

\* the characters /\s/ matches, among those the inputs use
Whitespace == {" ", "\t"}

Digits == {"0", "1", "2", "3", "4", "5", "6", "7", "8", "9"}

\* String.prototype.trim
RECURSIVE TrimStart(_)
TrimStart(s) ==
    IF s = <<>> THEN <<>>
    ELSE IF Head(s) \in Whitespace THEN TrimStart(Tail(s)) ELSE s

RECURSIVE TrimEnd(_)
TrimEnd(s) ==
    IF s = <<>> THEN <<>>
    ELSE IF s[Len(s)] \in Whitespace THEN TrimEnd(SubSeq(s, 1, Len(s) - 1)) ELSE s

Trim(s) == TrimEnd(TrimStart(s))

\* formData.telephone.replace(/\s/g, "")
RECURSIVE StripWhitespace(_)
StripWhitespace(s) ==
    IF s = <<>> THEN <<>>
    ELSE IF Head(s) \in Whitespace THEN StripWhitespace(Tail(s))
         ELSE <<Head(s)>> \o StripWhitespace(Tail(s))

StartsWith(s, p) == Len(p) <= Len(s) /\ SubSeq(s, 1, Len(p)) = p

\* /^(\+237|237)?[6][0-9]{8,9}$/.test(s)
PhoneRegexTest(s) ==
    \E p \in {<<>>, <<"+", "2", "3", "7">>, <<"2", "3", "7">>} :
        /\ StartsWith(s, p)
        /\ LET r == SubSeq(s, Len(p) + 1, Len(s))
           IN  /\ Len(r) \in {9, 10}
               /\ r[1] = "6"
               /\ \A i \in 2..Len(r) : r[i] \in Digits

\* String.prototype.toLowerCase, on the letters the inputs use
LowerChar(c) ==
    CASE c = "A" -> "a"
      [] c = "B" -> "b"
      [] c = "D" -> "d"
      [] c = "O" -> "o"
      [] OTHER -> c

ToLowerCase(s) == [i \in 1..Len(s) |-> LowerChar(s[i])]

\* String.prototype.includes
Includes(s, t) ==
    \E k \in 0..(Len(s) - Len(t)) : SubSeq(s, k + 1, k + Len(t)) = t

------------------------------------------------------------------------------
(* localStorage values and JSON *)

\* getItem of a key that was never set
Null == <<"null">>

NoItem == [kind |-> "null", body |-> <<>>]

\* a stored text JSON.parse throws on
Garbage == [kind |-> "garbage", body |-> <<>>]

\* JSON.stringify of one Inscription: its values in the order of its keys
StringifyOne(insc) ==
    <<insc.id, insc.userId, insc.nom, insc.filiere, insc.niveau,
      insc.telephone, insc.dateInscription, insc.heureInscription>>

JSONstringify(list) ==
    [kind |-> "json", body |-> [i \in 1..Len(list) |-> StringifyOne(list[i])]]

ParseOne(t) ==
    [id |-> t[1], userId |-> t[2], nom |-> t[3], filiere |-> t[4],
     niveau |-> t[5], telephone |-> t[6], dateInscription |-> t[7],
     heureInscription |-> t[8]]

\* JSON.parse: the value, or threw
JSONparse(stored) ==
    IF stored.kind = "json"
    THEN [threw |-> FALSE, value |-> [i \in 1..Len(stored.body) |-> ParseOne(stored.body[i])]]
    ELSE [threw |-> TRUE, value |-> <<>>]

------------------------------------------------------------------------------
(* The state the page starts from *)

\* the identifier this browser stored on an earlier visit
user0 == <<"user", -1>>

\* an identifier the profile had before its "userId" key was reset
userOld == <<"user", -2>>

DigitChar(n) == <<"0", "1", "2", "3", "4", "5", "6", "7", "8", "9">>[n + 1]

StoredPhone(k) ==
    <<"6", "9", "0", "0", "0", "0", "0">> \o <<DigitChar((k \div 10) % 10), DigitChar(k % 10)>>

StoredNoms == << <<"B", "o", "b">>, <<"A", "d", "a">>, <<"a", "B">> >>

\* a registration made before the observed run: the k-th newest
StoredEntry(k) ==
    [id |-> -k,
     userId |-> IF k = 1 THEN user0 ELSE userOld,
     nom |-> StoredNoms[(k % 3) + 1],
     filiere |-> FILIERES[(k % 4) + 1],
     niveau |-> NIVEAUX[(k % 5) + 1],
     telephone |-> StoredPhone(k),
     dateInscription |-> -k,
     heureInscription |-> -k]

\* a list earlier visits left in storage, newest first
StoredList(n) == [k \in 1..n |-> StoredEntry(k)]

EmptyForm == [nom |-> <<>>, filiere |-> "", niveau |-> "", telephone |-> <<>>]

NoQueue == [userId |-> <<>>, set |-> FALSE, value |-> <<>>]

\* localStorage when the page is first opened: a new browser, a browser whose
\* list is unreadable, and browsers that hold 2 and MAX_INSCRIPTIONS - 1
\* registrations
InitialStorage ==
    { <<Null, NoItem>>,
      <<user0, Garbage>>,
      <<user0, JSONstringify(StoredList(2))>>,
      <<user0, JSONstringify(StoredList(MAX_INSCRIPTIONS - 1))>> }

\* the component before it is mounted: the useState initial values
Unmounted ==
    /\ inscriptions = <<>>
    /\ formData = EmptyForm
    /\ loading = FALSE
    /\ currentUserId = <<>>
    /\ searchNom = <<>>
    /\ filterFiliere = ""
    /\ filterNiveau = ""
    /\ queued = NoQueue
    /\ pending = <<>>
    /\ lastToast = "none"
    /\ loadedKind = "none"

Init ==
    /\ pc = "closed"
    /\ \E st \in InitialStorage :
           /\ storageUserId = st[1]
           /\ storageInscriptions = st[2]
    /\ Unmounted
    /\ clock = 0
    /\ sessionStart = 0

------------------------------------------------------------------------------
(* Mount: the three effects, then the render of the updates they scheduled *)

\* effect 1 without its test of the stored identifier
InitUserIdAlways(stored, now) == <<"user", now>>

\* effect 1: the stored identifier, or a new one
InitUserId(stored, now) ==
    IF stored = Null \/ stored = <<>> THEN <<"user", now>> ELSE stored

\* effect 2 leaving the stored list unread
LoadInscriptionsNever(stored) == [set |-> FALSE, value |-> <<>>, uncaught |-> FALSE]

\* effect 2 without its try/catch
LoadInscriptionsUncaught(stored) ==
    IF stored.kind # "null"
    THEN LET r == JSONparse(stored)
         IN  [set |-> ~r.threw, value |-> r.value, uncaught |-> r.threw]
    ELSE [set |-> FALSE, value |-> <<>>, uncaught |-> FALSE]

\* effect 2: the update setInscriptions(JSON.parse(stored)) if it is made
LoadInscriptions(stored) ==
    IF stored.kind # "null"
    THEN LET r == JSONparse(stored)
         IN  IF r.threw
             THEN [set |-> FALSE, value |-> <<>>, uncaught |-> FALSE]
             ELSE [set |-> TRUE, value |-> r.value, uncaught |-> FALSE]
    ELSE [set |-> FALSE, value |-> <<>>, uncaught |-> FALSE]

\* effect 3 writing the list of the render before the update
SaveInscriptionsStale(list) == JSONstringify(inscriptions)

\* effect 3: localStorage.setItem("inscriptions", JSON.stringify(inscriptions))
SaveInscriptions(list) == JSONstringify(list)

\* The page is loaded: the first render shows the initial state, then the
\* three effects run in order. Effect 3 runs with the inscriptions of the
\* first render.
Mount ==
    /\ pc = "closed"
    /\ LET now == clock + 1
           userId == InitUserId(storageUserId, now)
           load == LoadInscriptions(storageInscriptions)
       IN  /\ userId = storageUserId \/ clock < MaxClock
           /\ storageUserId' = userId
           /\ clock' = IF userId = storageUserId THEN clock ELSE now
           /\ loadedKind' = storageInscriptions.kind
           /\ IF load.uncaught
              THEN /\ pc' = "crashed"
                   /\ UNCHANGED <<storageInscriptions, queued>>
              ELSE /\ pc' = "mounting"
                   /\ queued' = [userId |-> userId, set |-> load.set, value |-> load.value]
                   /\ storageInscriptions' = SaveInscriptions(inscriptions)
    /\ sessionStart' = clock
    /\ UNCHANGED <<inscriptions, formData, loading, currentUserId, searchNom,
                   filterFiliere, filterNiveau, pending, lastToast>>

\* The updates of the mount effects are rendered; effect 3 runs again when
\* inscriptions is a new array.
Rerender ==
    /\ pc = "mounting"
    /\ pc' = "ready"
    /\ currentUserId' = queued.userId
    /\ inscriptions' = IF queued.set THEN queued.value ELSE inscriptions
    /\ storageInscriptions' =
           IF queued.set THEN SaveInscriptions(inscriptions') ELSE storageInscriptions
    /\ queued' = NoQueue
    /\ UNCHANGED <<storageUserId, formData, loading, searchNom, filterFiliere,
                   filterNiveau, pending, clock, lastToast, loadedKind, sessionStart>>

\* The page is closed or reloaded: the component state and the timers are gone,
\* localStorage stays.
Close ==
    /\ pc \in {"ready", "crashed"}
    /\ pc' = "closed"
    /\ inscriptions' = <<>>
    /\ formData' = EmptyForm
    /\ loading' = FALSE
    /\ currentUserId' = <<>>
    /\ searchNom' = <<>>
    /\ filterFiliere' = ""
    /\ filterNiveau' = ""
    /\ queued' = NoQueue
    /\ pending' = <<>>
    /\ lastToast' = "none"
    /\ loadedKind' = "none"
    /\ UNCHANGED <<storageUserId, storageInscriptions, clock, sessionStart>>

------------------------------------------------------------------------------
(* The form *)

\* what the user types into the name field
NomInputs == {<<>>, <<" ">>, <<"A", "d", "a">>}

\* what the user types into the phone field
TelephoneInputs ==
    { <<"6", "7", "7", "1", "2", "3", "4", "5", "6">>,
      <<"+", "2", "3", "7", "6", "7", "7", "1", "2", "3", "4", "5", "6">>,
      <<"1", "2", "3", "4", "5", "6", "7", "8", "9">>,
      <<"6", "7", "7", " ", "1", "2", "3", " ", "4", "5", "6">> }

\* the options the user picks in the two selects of the form
FiliereInputs == {"iw"}

NiveauInputs == {"bts1"}

\* disabled={isListFull || loading} on the inputs, the selects and the submit
\* button. The model lets the form be used while the list is full, which the
\* rendered page does not: handleSubmit then decides by its own capacity check.
FormDisabled == loading

\* handleInputChange: the name and the phone field
HandleInputChange ==
    /\ pc = "ready"
    /\ ~FormDisabled
    /\ \/ \E v \in NomInputs : formData' = [formData EXCEPT !.nom = v]
       \/ \E v \in TelephoneInputs : formData' = [formData EXCEPT !.telephone = v]
    /\ lastToast' = "none"
    /\ UNCHANGED <<pc, storageUserId, storageInscriptions, inscriptions, loading,
                   currentUserId, searchNom, filterFiliere, filterNiveau, queued,
                   pending, clock, loadedKind, sessionStart>>

\* handleSelectChange: the track and the level select
HandleSelectChange ==
    /\ pc = "ready"
    /\ ~FormDisabled
    /\ \/ \E v \in FiliereInputs : formData' = [formData EXCEPT !.filiere = v]
       \/ \E v \in NiveauInputs : formData' = [formData EXCEPT !.niveau = v]
    /\ lastToast' = "none"
    /\ UNCHANGED <<pc, storageUserId, storageInscriptions, inscriptions, loading,
                   currentUserId, searchNom, filterFiliere, filterNiveau, queued,
                   pending, clock, loadedKind, sessionStart>>

\* validateForm without its duplicate check
HasTelephoneUnchecked(list, telephone) == FALSE

\* inscriptions.some((insc) => insc.telephone === telephone)
HasTelephone(list, telephone) ==
    \E i \in 1..Len(list) : list[i].telephone = telephone

\* validateForm: "valid", or the toast of the first check that fails
ValidateForm(form, list) ==
    IF Trim(form.nom) = <<>> THEN "nom"
    ELSE IF form.filiere = "" THEN "filiere"
    ELSE IF form.niveau = "" THEN "niveau"
    ELSE IF ~PhoneRegexTest(StripWhitespace(form.telephone)) THEN "telephone"
    ELSE IF HasTelephone(list, form.telephone) THEN "doublon"
    ELSE "valid"

\* the capacity check with > for >=
IsListFullOffByOne(list) == Len(list) > MAX_INSCRIPTIONS

\* inscriptions.length >= MAX_INSCRIPTIONS
IsListFull(list) == Len(list) >= MAX_INSCRIPTIONS

\* handleSubmit up to its await: "ok", or the toast it returns with
SubmitVerdict(form, list) ==
    IF ValidateForm(form, list) # "valid" THEN ValidateForm(form, list)
    ELSE IF IsListFull(list) THEN "max"
    ELSE "ok"

\* handleSubmit, first half: validation, the capacity check, setLoading(true)
\* and the start of the delay. The rest of the call keeps the formData, the
\* currentUserId and the inscriptions of the render it was made in.
HandleSubmit ==
    /\ pc = "ready"
    /\ ~FormDisabled
    /\ LET verdict == SubmitVerdict(formData, inscriptions)
       IN  IF verdict = "ok"
           THEN /\ Len(pending) < MaxPending
                /\ clock + Len(pending) < MaxClock
                /\ loading' = TRUE
                /\ pending' = Append(pending, [formData |-> formData,
                                            currentUserId |-> currentUserId,
                                            inscriptions |-> inscriptions])
                /\ lastToast' = "none"
           ELSE /\ lastToast' = verdict
                /\ UNCHANGED <<loading, pending>>
    /\ UNCHANGED <<pc, storageUserId, storageInscriptions, inscriptions, formData,
                   currentUserId, searchNom, filterFiliere, filterNiveau, queued,
                   clock, loadedKind, sessionStart>>

\* the Inscription handleSubmit builds after the delay
NewInscription(call, now) ==
    [id |-> now,
     userId |-> call.currentUserId,
     nom |-> call.formData.nom,
     filiere |-> call.formData.filiere,
     niveau |-> call.formData.niveau,
     telephone |-> call.formData.telephone,
     dateInscription |-> now,
     heureInscription |-> now]

\* the new entry put at the end of the list
PrependAtEnd(insc, prev) == prev \o <<insc>>

\* setInscriptions((prev) => [newInscription, ...prev])
Prepend(insc, prev) == <<insc>> \o prev

\* the update built on the list of the render the call was made in
SubmitUpdateStale(call, now, prev) ==
    Prepend(NewInscription(call, now), call.inscriptions)

\* the updater handleSubmit gives setInscriptions, applied to the list prev of
\* the moment the update is rendered
SubmitUpdate(call, now, prev) == Prepend(NewInscription(call, now), prev)

\* handleSubmit, second half: the delay is over. The three state updates are
\* rendered together and the save effect runs on the new list.
SubmitComplete ==
    /\ pc = "ready"
    /\ pending # <<>>
    /\ LET now == clock + 1
       IN  /\ clock' = now
           /\ inscriptions' = SubmitUpdate(Head(pending), now, inscriptions)
    /\ pending' = Tail(pending)
    /\ formData' = EmptyForm
    /\ loading' = FALSE
    /\ lastToast' = "success"
    /\ storageInscriptions' = SaveInscriptions(inscriptions')
    /\ UNCHANGED <<pc, storageUserId, currentUserId, searchNom, filterFiliere,
                   filterNiveau, queued, loadedKind, sessionStart>>

------------------------------------------------------------------------------
(* Deletion *)

\* inscriptions.find((insc) => insc.id === id): the index, 0 if none
FindIndex(list, id) ==
    IF \E i \in 1..Len(list) : list[i].id = id
    THEN CHOOSE i \in 1..Len(list) :
             /\ list[i].id = id
             /\ \A j \in 1..(i - 1) : list[j].id # id
    ELSE 0

\* handleDelete without its ownership check
DeleteVerdictAnyOwner(list, id, user) ==
    IF FindIndex(list, id) = 0 THEN "notfound" ELSE "ok"

\* handleDelete up to setInscriptions: "ok", or the toast it returns with
DeleteVerdict(list, id, user) ==
    IF FindIndex(list, id) = 0 THEN "notfound"
    ELSE IF list[FindIndex(list, id)].userId # user THEN "forbidden"
    ELSE "ok"

\* the filter with its comparison turned round: it keeps the entry of the id
RemoveIdKeepsOnly(prev, id) == SelectSeq(prev, LAMBDA insc : insc.id = id)

\* prev.filter((insc) => insc.id !== id)
RECURSIVE RemoveId(_, _)
RemoveId(prev, id) ==
    IF prev = <<>> THEN <<>>
    ELSE IF Head(prev).id # id THEN <<Head(prev)>> \o RemoveId(Tail(prev), id)
         ELSE RemoveId(Tail(prev), id)

\* the places in the list of the delete buttons the user clicks: the first
\* ones and the last
ClickPositions(list) == {i \in 1..Len(list) : i <= MaxClick \/ i = Len(list)}

\* the ids handleDelete is called with: those clicked, and one of no entry
DeleteIds == {inscriptions[i].id : i \in ClickPositions(inscriptions)} \cup {0}

\* handleDelete(id); the save effect runs when the list was replaced
HandleDelete ==
    /\ pc = "ready"
    /\ \E id \in DeleteIds :
           LET verdict == DeleteVerdict(inscriptions, id, currentUserId)
           IN  IF verdict = "ok"
               THEN /\ inscriptions' = RemoveId(inscriptions, id)
                    /\ storageInscriptions' = SaveInscriptions(inscriptions')
                    /\ lastToast' = "deleted"
               ELSE /\ lastToast' = verdict
                    /\ UNCHANGED <<inscriptions, storageInscriptions>>
    /\ UNCHANGED <<pc, storageUserId, formData, loading, currentUserId, searchNom,
                   filterFiliere, filterNiveau, queued, pending, clock, loadedKind,
                   sessionStart>>

------------------------------------------------------------------------------
(* The specification of the page *)

Next ==
    \/ Mount
    \/ Rerender
    \/ Close
    \/ HandleInputChange
    \/ HandleSelectChange
    \/ HandleSubmit
    \/ SubmitComplete
    \/ HandleDelete

Spec == Init /\ [][Next]_vars

------------------------------------------------------------------------------
(* The search: filteredInscriptions *)

\* the filter callback with a name search that keeps the case of the name
MatchesFiltersCaseKept(insc, search, filiere, niveau) ==
    /\ \/ search = <<>>
       \/ Includes(insc.nom, ToLowerCase(search))
       \/ Includes(insc.telephone, search)
    /\ filiere = "" \/ insc.filiere = filiere
    /\ niveau = "" \/ insc.niveau = niveau

\* the callback of inscriptions.filter in filteredInscriptions
MatchesFilters(insc, search, filiere, niveau) ==
    LET matchNom ==
            \/ search = <<>>
            \/ Includes(ToLowerCase(insc.nom), ToLowerCase(search))
            \/ Includes(insc.telephone, search)
        matchFiliere == filiere = "" \/ insc.filiere = filiere
        matchNiveau == niveau = "" \/ insc.niveau = niveau
    IN  matchNom /\ matchFiliere /\ matchNiveau

\* Array.prototype.filter with that callback
RECURSIVE FilterList(_, _, _, _)
FilterList(list, search, filiere, niveau) ==
    IF list = <<>> THEN <<>>
    ELSE IF MatchesFilters(Head(list), search, filiere, niveau)
         THEN <<Head(list)>> \o FilterList(Tail(list), search, filiere, niveau)
         ELSE FilterList(Tail(list), search, filiere, niveau)

\* the useMemo value of the current render
filteredInscriptions == FilterList(inscriptions, searchNom, filterFiliere, filterNiveau)

\* searchNom !== "" || filterFiliere !== "" || filterNiveau !== ""
hasActiveFilters == searchNom # <<>> \/ filterFiliere # "" \/ filterNiveau # ""

\* what the user types into the search field
SearchInputs ==
    { <<>>, <<"a">>, <<"A", "D">>, <<"A", "b">>, <<"o", "b">>, <<"0", "1">>, <<"6", "9">>, <<"x">> }

\* onChange of the search field
SetSearchNom ==
    /\ pc = "ready"
    /\ \E v \in SearchInputs : searchNom' = v
    /\ UNCHANGED <<pc, storageUserId, storageInscriptions, inscriptions, formData,
                   loading, currentUserId, filterFiliere, filterNiveau, queued,
                   pending, clock, lastToast, loadedKind, sessionStart>>

\* onValueChange of the track filter: "all" clears it
SetFilterFiliere ==
    /\ pc = "ready"
    /\ \E v \in Range(FILIERES) \cup {"all"} :
           filterFiliere' = IF v = "all" THEN "" ELSE v
    /\ UNCHANGED <<pc, storageUserId, storageInscriptions, inscriptions, formData,
                   loading, currentUserId, searchNom, filterNiveau, queued,
                   pending, clock, lastToast, loadedKind, sessionStart>>

\* onValueChange of the level filter: "all" clears it
SetFilterNiveau ==
    /\ pc = "ready"
    /\ \E v \in Range(NIVEAUX) \cup {"all"} :
           filterNiveau' = IF v = "all" THEN "" ELSE v
    /\ UNCHANGED <<pc, storageUserId, storageInscriptions, inscriptions, formData,
                   loading, currentUserId, searchNom, filterFiliere, queued,
                   pending, clock, lastToast, loadedKind, sessionStart>>

\* the button that resets the three filters, shown when one is active
ResetFilters ==
    /\ pc = "ready"
    /\ hasActiveFilters
    /\ searchNom' = <<>>
    /\ filterFiliere' = ""
    /\ filterNiveau' = ""
    /\ UNCHANGED <<pc, storageUserId, storageInscriptions, inscriptions, formData,
                   loading, currentUserId, queued, pending, clock, lastToast,
                   loadedKind, sessionStart>>

\* the entries of StoredList(n) at the places in keep, in list order
RECURSIVE Keep(_, _)
Keep(list, keep) ==
    IF list = <<>> THEN <<>>
    ELSE IF -Head(list).id \in keep THEN <<Head(list)>> \o Keep(Tail(list), keep)
         ELSE Keep(Tail(list), keep)

\* The page after it loaded a list that earlier visits left: any part of
\* StoredList(MaxFilterList)
InitFilter ==
    /\ pc = "ready"
    /\ storageUserId = user0
    /\ currentUserId = user0
    /\ \E keep \in SUBSET (1..MaxFilterList) :
           inscriptions = Keep(StoredList(MaxFilterList), keep)
    /\ storageInscriptions = SaveInscriptions(inscriptions)
    /\ formData = EmptyForm
    /\ loading = FALSE
    /\ searchNom = <<>>
    /\ filterFiliere = ""
    /\ filterNiveau = ""
    /\ queued = NoQueue
    /\ pending = <<>>
    /\ lastToast = "none"
    /\ loadedKind = "json"
    /\ clock = 0
    /\ sessionStart = 0

NextFilter ==
    \/ SetSearchNom
    \/ SetFilterFiliere
    \/ SetFilterNiveau
    \/ ResetFilters

\* the page while the user only searches
SpecFilter == InitFilter /\ [][NextFilter]_vars

------------------------------------------------------------------------------
(* Properties *)

Entries(list) == {list[i] : i \in 1..Len(list)}

\* C1: the registration list never holds more than MAX_INSCRIPTIONS entries,
\* also counting the submissions that wait in their delay: at MAX_INSCRIPTIONS
\* entries no submission is accepted, and one accepted below it still fits
\* when its delay ends.
C1_AtMostMax ==
    /\ Len(inscriptions) <= MAX_INSCRIPTIONS
    /\ Len(inscriptions) + Len(pending) <= MAX_INSCRIPTIONS

\* a submission with a valid form was refused because the list holds
\* MAX_INSCRIPTIONS entries
C1_Witness ==
    /\ Len(inscriptions) = MAX_INSCRIPTIONS
    /\ lastToast = "max"
    /\ pending = <<>>

\* C2: no two registrations of the list have the same phone number, and no
\* submission waiting in its delay carries a phone number of the list: a
\* submission whose phone number is in the list is refused.
C2_UniqueTelephone ==
    /\ \A i, j \in 1..Len(inscriptions) :
           i # j => inscriptions[i].telephone # inscriptions[j].telephone
    /\ \A k \in 1..Len(pending) : \A i \in 1..Len(inscriptions) :
           pending[k].formData.telephone # inscriptions[i].telephone

\* a submission was refused as a duplicate, the list as it was
C2_Witness ==
    /\ lastToast = "doublon"
    /\ \E i \in 1..Len(inscriptions) : inscriptions[i].telephone = formData.telephone
    /\ pending = <<>>

\* C3: while the page is open, a step removes a registration from the list
\* only if its userId is the current identifier: the registrations of other
\* identifiers stay, whatever ids handleDelete is called with.
C3_OthersStay ==
    [][ (pc = "ready" /\ pc' = "ready") =>
            \A e \in Entries(inscriptions) :
                e.userId # currentUserId => e \in Entries(inscriptions') ]_vars

\* handleDelete was called with the id of another identifier's registration and
\* refused
C3_Witness ==
    /\ pc = "ready"
    /\ lastToast = "forbidden"
    /\ \E e \in Entries(inscriptions) : e.userId # currentUserId

\* the registrations handleSubmit created in the observed run
Created == {e \in Entries(inscriptions) : e.id > 0}

\* C4: every registration created by submit has a name that is not empty
\* after trimming, a track, a level, and a phone number that matches
\* ^(\+237|237)?[6][0-9]{8,9}$; the pattern accepts "+237677123456" and
\* "677123456" and rejects "123456789".
C4_CreatedMatchPattern ==
    /\ PhoneRegexTest(<<"+", "2", "3", "7", "6", "7", "7", "1", "2", "3", "4", "5", "6">>)
    /\ PhoneRegexTest(<<"6", "7", "7", "1", "2", "3", "4", "5", "6">>)
    /\ ~PhoneRegexTest(<<"1", "2", "3", "4", "5", "6", "7", "8", "9">>)
    /\ \A e \in Created :
           /\ Trim(e.nom) # <<>>
           /\ e.filiere # ""
           /\ e.niveau # ""
           /\ PhoneRegexTest(e.telephone)

\* C5: the end of an accepted submission puts one new registration at the head
\* of the list, with the name, track, level and phone of the form and the
\* current identifier as userId, keeps the earlier entries behind it in their
\* order, and empties the four form fields.
C5_SubmitPrepends ==
    [][ (pc = "ready" /\ pc' = "ready" /\ loading /\ ~loading') =>
            /\ Len(inscriptions') = Len(inscriptions) + 1
            /\ \A i \in 1..Len(inscriptions) : inscriptions'[i + 1] = inscriptions[i]
            /\ inscriptions'[1].nom = formData.nom
            /\ inscriptions'[1].filiere = formData.filiere
            /\ inscriptions'[1].niveau = formData.niveau
            /\ inscriptions'[1].telephone = formData.telephone
            /\ inscriptions'[1].userId = currentUserId
            /\ \A i \in 1..Len(inscriptions) : inscriptions[i].id # inscriptions'[1].id
            /\ formData' = EmptyForm ]_vars

\* a submission ended on a list that already held entries
C5_Witness ==
    /\ lastToast = "success"
    /\ Len(inscriptions) >= 2
    /\ inscriptions[1].id = clock
    /\ inscriptions[1].userId = currentUserId
    /\ formData = EmptyForm

\* the letters of one case pair
SameLetter(c, d) ==
    \/ c = d
    \/ {c, d} \in {{"A", "a"}, {"B", "b"}, {"D", "d"}, {"O", "o"}}

\* t occurs in s; with fold, whatever the case of the letters
Occurs(t, s, fold) ==
    \E k \in 0..(Len(s) - Len(t)) :
        \A j \in 1..Len(t) :
            IF fold THEN SameLetter(s[k + j], t[j]) ELSE s[k + j] = t[j]

\* the three conditions the view puts on an entry
Shown(e) ==
    /\ \/ searchNom = <<>>
       \/ Occurs(searchNom, e.nom, TRUE)
       \/ Occurs(searchNom, e.telephone, FALSE)
    /\ filterFiliere = "" \/ e.filiere = filterFiliere
    /\ filterNiveau = "" \/ e.niveau = filterNiveau

\* the places of the list whose entry the view has to show
ShownAt == {i \in 1..Len(inscriptions) : Shown(inscriptions[i])}

\* C6: the displayed view holds exactly the entries of the list, in list
\* order, for which the search text is empty or occurs in the name whatever
\* the case or occurs in the phone, the track filter is empty or is the
\* entry's track, and the level filter is empty or is the entry's level.
C6_ViewIsFilter ==
    /\ Len(filteredInscriptions) = Cardinality(ShownAt)
    /\ \A i \in ShownAt :
           filteredInscriptions[Cardinality({j \in ShownAt : j <= i})] = inscriptions[i]
    /\ filterFiliere = "iw" => \A e \in Entries(filteredInscriptions) : e.filiere = "iw"

\* a search and a track filter show a part of the list, through a name that
\* holds the search text in another case
C6_Witness ==
    /\ searchNom = <<"A", "b">>
    /\ filterFiliere = "iw"
    /\ filteredInscriptions # <<>>
    /\ Len(filteredInscriptions) < Len(inscriptions)
    /\ \E e \in Entries(filteredInscriptions) : ~Includes(e.nom, searchNom)

\* the stored text holds the entries of list, field by field, in its order
StoredIs(stored, list) ==
    /\ stored.kind = "json"
    /\ Len(stored.body) = Len(list)
    /\ \A i \in 1..Len(list) :
           /\ stored.body[i][1] = list[i].id
           /\ stored.body[i][2] = list[i].userId
           /\ stored.body[i][3] = list[i].nom
           /\ stored.body[i][4] = list[i].filiere
           /\ stored.body[i][5] = list[i].niveau
           /\ stored.body[i][6] = list[i].telephone
           /\ stored.body[i][7] = list[i].dateInscription
           /\ stored.body[i][8] = list[i].heureInscription

\* C7: after every step of the open page that changes the list in memory, the
\* text stored under "inscriptions" holds the whole list in memory, entry for
\* entry in the same order.
C7_StoredAfterChange ==
    [][ (pc' = "ready" /\ inscriptions' # inscriptions) =>
            StoredIs(storageInscriptions', inscriptions') ]_vars

\* a deletion left a list that is not empty, and storage holds it
C7_Witness ==
    /\ pc = "ready"
    /\ lastToast = "deleted"
    /\ inscriptions # <<>>
    /\ StoredIs(storageInscriptions, inscriptions)

\* C8: startup reloads the stored list verbatim: the load effect schedules the
\* list that storage held when the page was opened, entry for entry in the
\* same order, and the list in memory when startup has finished is that list.
C8_ReloadVerbatim ==
    [][ /\ (pc = "closed" /\ pc' # "closed" /\ storageInscriptions.kind = "json") =>
               /\ pc' = "mounting"
               /\ queued'.set
               /\ StoredIs(storageInscriptions, queued'.value)
        /\ (pc = "mounting" /\ loadedKind = "json") =>
               /\ pc' = "ready"
               /\ inscriptions' = queued.value ]_vars

\* startup has finished with a registration in memory that was submitted
\* before the page was opened again
C8_Witness ==
    /\ pc = "ready"
    /\ loadedKind = "json"
    /\ clock = sessionStart
    /\ pending = <<>>
    /\ Len(inscriptions) >= 2
    /\ Created # {}
    /\ StoredIs(storageInscriptions, inscriptions)

\* a stored identifier
IsUserId(v) == v # Null /\ v # <<>>

\* C9: a stored identifier is never replaced; a page load ends with an
\* identifier in storage; once startup has finished the current identifier is
\* the stored one, and handleDelete accepts every registration that this
\* browser submitted, before or after a restart.
C9_KeepsIdentifier ==
    [][ /\ IsUserId(storageUserId) => storageUserId' = storageUserId
        /\ (pc = "closed" /\ pc' # "closed") => IsUserId(storageUserId')
        /\ pc' = "ready" =>
               /\ currentUserId' = storageUserId'
               /\ \A e \in Entries(inscriptions') :
                      e.id > 0 => DeleteVerdict(inscriptions', e.id, currentUserId') = "ok" ]_vars

\* a browser that generated its identifier in the observed run deleted, after
\* a restart, a registration it had submitted before the restart
C9_Witness ==
    /\ pc = "ready"
    /\ currentUserId = storageUserId
    /\ currentUserId[2] > 0
    /\ sessionStart > currentUserId[2]
    /\ clock = sessionStart
    /\ lastToast = "deleted"

\* a form that passes validateForm on an empty list
AForm ==
    [nom |-> <<"A", "d", "a">>, filiere |-> "iw", niveau |-> "bts1",
     telephone |-> <<"6", "7", "7", "1", "2", "3", "4", "5", "6">>]

\* C10: a stored list that cannot be parsed is not fatal: the page never
\* crashes, startup ends with an empty list in memory, and a valid
\* submission is then accepted.
C10_ParseFailureNotFatal ==
    [][ /\ pc' # "crashed"
        /\ (pc = "closed" /\ pc' # "closed" /\ storageInscriptions.kind = "garbage") =>
               /\ pc' = "mounting"
               /\ ~queued'.set
        /\ (pc = "mounting" /\ loadedKind = "garbage") =>
               /\ pc' = "ready"
               /\ inscriptions' = <<>>
               /\ ~loading'
               /\ SubmitVerdict(AForm, inscriptions') = "ok" ]_vars

\* after a startup that found an unreadable list, a submission was accepted
\* and stored
C10_Witness ==
    /\ pc = "ready"
    /\ loadedKind = "garbage"
    /\ lastToast = "success"
    /\ Len(inscriptions) = 1
    /\ StoredIs(storageInscriptions, inscriptions)

\* list without its i-th entry
Without(list, i) == SubSeq(list, 1, i - 1) \o SubSeq(list, i + 1, Len(list))

\* C11: no step of the open page updates a registration: a step that
\* shortens the list takes out one entry and leaves the others as they were
\* and in their order, a delete of an id that is not in the list is refused
\* and leaves the list and storage as they were, and an entry that is in the
\* list before and after a step has the same field values.
C11_NoUpdate ==
    [][ (pc = "ready" /\ pc' = "ready") =>
            /\ Len(inscriptions') < Len(inscriptions) =>
                   \E i \in 1..Len(inscriptions) :
                       /\ inscriptions' = Without(inscriptions, i)
                       /\ \A j \in 1..Len(inscriptions') :
                              inscriptions'[j].id # inscriptions[i].id
            /\ lastToast' = "notfound" =>
                   /\ inscriptions' = inscriptions
                   /\ storageInscriptions' = storageInscriptions
            /\ \/ inscriptions' = inscriptions
               \/ \A i \in 1..Len(inscriptions) : \A j \in 1..Len(inscriptions') :
                      inscriptions'[j].id = inscriptions[i].id =>
                          inscriptions'[j] = inscriptions[i] ]_vars

\* a deletion took an entry from between two others: a registration
\* submitted in the run is at the head, the stored ones of other owners follow
C11_Witness ==
    /\ pc = "ready"
    /\ lastToast = "deleted"
    /\ Len(inscriptions) >= 2
    /\ inscriptions[1].id > 0
    /\ inscriptions[2].id = -2
    /\ StoredIs(storageInscriptions, inscriptions)

\* the registrations that were deleted since the call was made
DeletedSince(call) == Entries(call.inscriptions) \ Entries(inscriptions)

\* the ids of the registrations the stored text holds
StoredIds(stored) == {stored.body[i][1] : i \in 1..Len(stored.body)}

\* C12: when a submission ends its delay, the list is the new registration
\* followed by the list of that moment: a registration deleted during the
\* delay is neither in the list nor in storage afterwards.
C12_DeleteNotUndone ==
    [][ (pc = "ready" /\ pc' = "ready" /\ loading /\ ~loading') =>
            /\ Len(inscriptions') = Len(inscriptions) + 1
            /\ SubSeq(inscriptions', 2, Len(inscriptions')) = inscriptions
            /\ \A e \in DeletedSince(Head(pending)) :
                   /\ e \notin Entries(inscriptions')
                   /\ e.id \notin StoredIds(storageInscriptions') ]_vars

\* a registration was deleted while a submission waits in its delay
C12_Witness ==
    /\ pc = "ready"
    /\ loading
    /\ pending # <<>>
    /\ lastToast = "deleted"
    /\ DeletedSince(Head(pending)) # {}

\* the page is starting up over a stored list that parses
StartingOverList ==
    \/ pc = "closed" /\ storageInscriptions.kind = "json"
    \/ pc = "mounting" /\ loadedKind = "json"

\* C13: startup never alters the stored registrations: over a stored list
\* that parses, no step from the page load to the end of startup changes the
\* text stored under "inscriptions".
C13_StartupKeepsStorage ==
    [][ StartingOverList => storageInscriptions' = storageInscriptions ]_vars

====
